---- MODULE Spec2Model ----
(***************************************************************************)
(* Shikaku solver (src/src/solver/solver.ts, helpers.ts = src/unnamed/     *)
(* part_002) as a state machine.  A solve call is run step by step on an   *)
(* explicit stack of resolveWithAssumptions frames; the module-level       *)
(* variables rectangleCounter and cache of solver.ts are variables here.   *)
(*                                                                         *)
(* Representation.                                                         *)
(*   Coord        record [y, x], 0-based as in the source                  *)
(*   Possibility  record [start : Coord, size : [height, width]]           *)
(*   number[][]   function [0..H-1 -> [0..W-1 -> Int]]                     *)
(*   Map<K,V>     sequence of records [key, val] in insertion order        *)
(*   "y,x" key    the pair <<y, x>> (coordToString / stringToCoord)        *)
(*   string       sequence of one-character strings                        *)
(*   Set<string>  set of such sequences                                    *)
(*   T | null     Null or Some(v): records told apart by their isNull field *)
(***************************************************************************)
EXTENDS Integers, Sequences, FiniteSets

\* ------------------------------------------------------------------ bounds
\* boards of the single-call specification: at most MaxH x MaxW with at most
\* MaxCells cells, at most MaxClues clues, clue values 1..MaxValue
MaxH == 3
MaxW == 3
MaxCells == 6
MaxClues == 3
MaxValue == 4
\* boards of the other specifications: at most SmallH x SmallW, at most
\* SmallClues clues
SmallH == 2
SmallW == 2
SmallClues == 2
SmallValue == 2
\* calls of shikakuSolve in a row, and direct calls of addRectangle in a row
MaxCalls == 3
MaxAdds == 2
\* the editor: grid sizes offered, cell edits and Solve clicks per behaviour
AppMaxH == 2
AppMaxW == 2
MaxEdits == 1
MaxClicks == 2

\* ------------------------------------------------------------- generic helpers
Null == [isNull |-> TRUE]
Some(v) == [isNull |-> FALSE, value |-> v]

RECURSIVE SeqToSet(_)
SeqToSet(s) == IF s = <<>> THEN {} ELSE {Head(s)} \cup SeqToSet(Tail(s))

RECURSIVE Concat(_)
Concat(ss) == IF ss = <<>> THEN <<>> ELSE Head(ss) \o Concat(Tail(ss))

\* Map<K,V> operations on insertion-ordered sequences of [key, val]
MapHas(m, k) == \E i \in 1..Len(m) : m[i].key = k
MapGet(m, k) == m[CHOOSE i \in 1..Len(m) : m[i].key = k].val
MapSet(m, k, v) ==
    IF MapHas(m, k)
    THEN [i \in 1..Len(m) |-> IF m[i].key = k THEN [key |-> k, val |-> v] ELSE m[i]]
    ELSE Append(m, [key |-> k, val |-> v])
MapDelete(m, k) == SelectSeq(m, LAMBDA e : e.key # k)

\* ------------------------------------------------------------- helpers.ts
VOID_TOKEN == <<"-", "-">>

coordToString(coord) == <<coord.y, coord.x>>
stringToCoord(str) == [y |-> str[1], x |-> str[2]]

Rows(grid) == 0..(grid.size.height - 1)
Cols(grid) == 0..(grid.size.width - 1)

\* the cells a possibility covers, as (row, col) records
ZoneCells(p) ==
    { [y |-> r, x |-> c] : r \in p.start.y..(p.start.y + p.size.height - 1),
                           c \in p.start.x..(p.start.x + p.size.width - 1) }

isCellInRectangle(cellCoord, possibility) ==
    /\ possibility.start.y <= cellCoord.y
    /\ cellCoord.y < possibility.start.y + possibility.size.height
    /\ possibility.start.x <= cellCoord.x
    /\ cellCoord.x < possibility.start.x + possibility.size.width

\* grid.activeMask[y]?.[x], undefined counting as false
coversOnlyActiveCells(possibility, grid) ==
    \A c \in ZoneCells(possibility) :
        /\ c.y \in Rows(grid)
        /\ c.x \in Cols(grid)
        /\ grid.activeMask[c.y][c.x]

\* isZoneFree without its second loop: occupied cells count as free
isZoneFreeActiveOnly(p, grid) == coversOnlyActiveCells(p, grid)

isZoneFree(p, grid) ==
    /\ coversOnlyActiveCells(p, grid)
    /\ \A c \in ZoneCells(p) : grid.cells[c.y][c.x] = 0

\* isAnotherAreaInfoInRectangle that finds no other clue
isAnotherAreaInfoNever(p, areaCoord, grid) == FALSE

isAnotherAreaInfoInRectangle(p, areaCoord, grid) ==
    \E i \in 1..Len(grid.areas) :
        /\ grid.areas[i].key # coordToString(areaCoord)
        /\ isCellInRectangle(stringToCoord(grid.areas[i].key), p)

\* for (i = 1; i <= sqrt(n); i++) if (n % i === 0) push([i, n / i])
RECURSIVE DivisorsFrom(_, _)
DivisorsFrom(n, i) ==
    IF i * i > n THEN <<>>
    ELSE (IF n % i = 0 THEN << <<i, n \div i>> >> ELSE <<>>) \o DivisorsFrom(n, i + 1)

getDivisors(n) == IF n < 1 THEN <<>> ELSE DivisorsFrom(n, 1)

\* the placements of one orientation, in the order of the w / h loops
PlacesOfOrientation(areaCoord, width, height, grid) ==
    LET all == [k \in 1..(width * height) |->
                  LET w == (k - 1) \div height
                      h == (k - 1) % height
                  IN [start |-> [y |-> areaCoord.y - h, x |-> areaCoord.x - w],
                      size  |-> [height |-> height, width |-> width]]]
        Keep(p) ==
            /\ p.start.x >= 0
            /\ p.start.y >= 0
            /\ p.start.x + width <= grid.size.width
            /\ p.start.y + height <= grid.size.height
            /\ coversOnlyActiveCells(p, grid)
            /\ ~isAnotherAreaInfoInRectangle(p, areaCoord, grid)
    IN SelectSeq(all, Keep)

\* getAvailablePlaces that never rotates the size
getAvailablePlacesOneOrientation(areaCoord, size, grid) ==
    PlacesOfOrientation(areaCoord, size[1], size[2], grid)

\* getAvailablePlaces that rotates square sizes too
getAvailablePlacesRotateSquares(areaCoord, size, grid) ==
    PlacesOfOrientation(areaCoord, size[1], size[2], grid)
      \o PlacesOfOrientation(areaCoord, size[2], size[1], grid)

getAvailablePlaces(areaCoord, size, grid) ==
    PlacesOfOrientation(areaCoord, size[1], size[2], grid)
      \o (IF size[1] = size[2] THEN <<>>
          ELSE PlacesOfOrientation(areaCoord, size[2], size[1], grid))

initialPossibilitiesCalculation(grid) ==
    [i \in 1..Len(grid.areas) |->
        LET coord == stringToCoord(grid.areas[i].key)
            divs  == getDivisors(grid.areas[i].val)
        IN [key |-> grid.areas[i].key,
            val |-> Concat([d \in 1..Len(divs) |-> getAvailablePlaces(coord, divs[d], grid)])]]

\* row-major list of all coordinates of the grid
AllCoords(grid) ==
    [k \in 1..(grid.size.height * grid.size.width) |->
        [y |-> (k - 1) \div grid.size.width, x |-> (k - 1) % grid.size.width]]

emptyCells(grid) ==
    SelectSeq(AllCoords(grid),
              LAMBDA c : grid.cells[c.y][c.x] = 0 /\ grid.activeMask[c.y][c.x])

\* emptyCellsPossibilities that records, for each cell, only the first area
\* with a possibility on it
emptyCellsPossibilitiesFirstArea(remainingPossibilities, grid) ==
    LET cellsSeq == emptyCells(grid)
        Usage(c) ==
            LET perArea == [i \in 1..Len(remainingPossibilities) |->
                              [key |-> remainingPossibilities[i].key,
                               val |-> SelectSeq(remainingPossibilities[i].val,
                                                 LAMBDA p : isCellInRectangle(c, p))]]
                used == SelectSeq(perArea, LAMBDA e : e.val # <<>>)
            IN IF used = <<>> THEN <<>> ELSE <<Head(used)>>
    IN [k \in 1..Len(cellsSeq) |->
          [key |-> coordToString(cellsSeq[k]), val |-> Usage(cellsSeq[k])]]

\* Map<cellKey, Map<areaKey, Possibility[]>>: one entry per empty cell, row-major;
\* the inner map lists the areas in the order of remainingPossibilities
emptyCellsPossibilities(remainingPossibilities, grid) ==
    LET cellsSeq == emptyCells(grid)
        Usage(c) ==
            LET perArea == [i \in 1..Len(remainingPossibilities) |->
                              [key |-> remainingPossibilities[i].key,
                               val |-> SelectSeq(remainingPossibilities[i].val,
                                                 LAMBDA p : isCellInRectangle(c, p))]]
            IN SelectSeq(perArea, LAMBDA e : e.val # <<>>)
    IN [k \in 1..Len(cellsSeq) |->
          [key |-> coordToString(cellsSeq[k]), val |-> Usage(cellsSeq[k])]]

\* i.toString().padStart(2, '0') for 0 <= i < 100
DigitChars == <<"0", "1", "2", "3", "4", "5", "6", "7", "8", "9">>
\* the letter without padStart
LetterUnpadded(i) ==
    IF i < 10 THEN <<DigitChars[i + 1]>>
    ELSE <<DigitChars[(i \div 10) + 1], DigitChars[(i % 10) + 1]>>
Letter(i) == <<DigitChars[(i \div 10) + 1], DigitChars[(i % 10) + 1]>>

\* lexicographicalGrid: walk from position k with iLetter letters handed out
\* and rectanglesLetter the map from cell value to its letter
RECURSIVE LexWalk(_, _, _, _, _)
LexWalk(grid, coords, k, iLetter, rectanglesLetter) ==
    IF k > Len(coords) THEN <<>>
    ELSE LET c == coords[k]
         IN IF ~grid.activeMask[c.y][c.x]
            THEN VOID_TOKEN \o LexWalk(grid, coords, k + 1, iLetter, rectanglesLetter)
            ELSE LET cell == grid.cells[c.y][c.x]
                 IN IF MapHas(rectanglesLetter, cell)
                    THEN MapGet(rectanglesLetter, cell)
                           \o LexWalk(grid, coords, k + 1, iLetter, rectanglesLetter)
                    ELSE Letter(iLetter % 100)
                           \o LexWalk(grid, coords, k + 1, iLetter + 1,
                                      MapSet(rectanglesLetter, cell, Letter(iLetter % 100)))

\* the cell values themselves as letters, without first-seen numbering
lexicographicalGridRawIds(grid) ==
    Concat([k \in 1..Len(AllCoords(grid)) |->
              LET c == AllCoords(grid)[k]
              IN IF ~grid.activeMask[c.y][c.x] THEN VOID_TOKEN
                 ELSE Letter(grid.cells[c.y][c.x] % 100)])

\* lexicographicalGrid that emits nothing for a void cell
lexicographicalGridSkipVoid(grid) ==
    LexWalk(grid, SelectSeq(AllCoords(grid), LAMBDA c : grid.activeMask[c.y][c.x]), 1, 0, <<>>)

lexicographicalGrid(grid) == LexWalk(grid, AllCoords(grid), 1, 0, <<>>)

\* mapsEqual that finds any two maps equal, so that resolve stops after one pass
mapsEqualAnyMaps(map1, map2) ==
    IF map1.isNull \/ map2.isNull THEN map1.isNull = map2.isNull
    ELSE TRUE

\* mapsEqual that finds two maps different whenever both are there, so that
\* resolve never leaves its loop on its own
mapsEqualNever(map1, map2) ==
    IF map1.isNull \/ map2.isNull THEN map1.isNull = map2.isNull
    ELSE FALSE

\* mapsEqual(map1, map2): same size and, key by key, the same list length
mapsEqual(map1, map2) ==
    IF map1.isNull \/ map2.isNull THEN map1.isNull = map2.isNull
    ELSE /\ Len(map1.value) = Len(map2.value)
         /\ \A i \in 1..Len(map1.value) :
               /\ MapHas(map2.value, map1.value[i].key)
               /\ Len(map1.value[i].val) = Len(MapGet(map2.value, map1.value[i].key))

\* getAreaCandidate: fewest possibilities, then the first with the biggest area
RECURSIVE MaxOfSeq(_)
MaxOfSeq(s) ==
    IF Len(s) <= 1 THEN (IF s = <<>> THEN -1 ELSE s[1])
    ELSE LET m == MaxOfSeq(Tail(s)) IN IF s[1] >= m THEN s[1] ELSE m

RECURSIVE ReduceMaxKey(_, _, _)
ReduceMaxKey(remainingPossibilities, maxKey, keys) ==
    IF keys = <<>> THEN maxKey
    ELSE LET AreaOf(k) ==
                 LET ps == MapGet(remainingPossibilities, k)
                 IN MaxOfSeq([i \in 1..Len(ps) |-> ps[i].size.height * ps[i].size.width])
             key == Head(keys)
         IN ReduceMaxKey(remainingPossibilities,
                         IF AreaOf(key) > AreaOf(maxKey) THEN key ELSE maxKey,
                         Tail(keys))

getAreaCandidate(allPossibilities) ==
    LET lens == [i \in 1..Len(allPossibilities) |-> Len(allPossibilities[i].val)]
        minPossibilities == CHOOSE n \in SeqToSet(lens) : \A m \in SeqToSet(lens) : n <= m
        minEntries == SelectSeq(allPossibilities, LAMBDA e : Len(e.val) = minPossibilities)
        minKeys == [i \in 1..Len(minEntries) |-> minEntries[i].key]
    IN ReduceMaxKey(allPossibilities, Head(minKeys), Tail(minKeys))

\* only the first possibility of the candidate area is tried
getAssumedFirstOnly(remainingPossibilities) ==
    LET candidateCoord == getAreaCandidate(remainingPossibilities)
        ps == MapGet(remainingPossibilities, candidateCoord)
    IN <<[areaCoord |-> candidateCoord,
          possibility |-> ps[1],
          assumedPossibilities |-> MapSet(remainingPossibilities, candidateCoord, <<ps[1]>>)]>>

\* the assumed maps, one per possibility of the candidate area, in list order
getAssumedPossibilitiesFromAnArea(remainingPossibilities) ==
    LET candidateCoord == getAreaCandidate(remainingPossibilities)
        ps == MapGet(remainingPossibilities, candidateCoord)
    IN [i \in 1..Len(ps) |->
          [areaCoord |-> candidateCoord,
           possibility |-> ps[i],
           assumedPossibilities |-> MapSet(remainingPossibilities, candidateCoord, <<ps[i]>>)]]

\* ------------------------------------------------------------- solver.ts
\* addRectangle: throws before any write when a cell of the rectangle is not
\* active (or lies outside the arrays); otherwise takes the next id and writes
\* it into every cell of the rectangle, whatever the cells held before
addRectangle(possibility, grid, counter) ==
    IF ~coversOnlyActiveCells(possibility, grid)
    THEN [threw |-> TRUE, cells |-> grid.cells, rectangleCounter |-> counter]
    ELSE [threw |-> FALSE,
          cells |-> [r \in Rows(grid) |-> [c \in Cols(grid) |->
                       IF isCellInRectangle([y |-> r, x |-> c], possibility)
                       THEN counter ELSE grid.cells[r][c]]],
          rectangleCounter |-> counter + 1]

\* The state threaded through one pass of resolve:
\*   status  "ok", "null" (return null) or "throw" (exception)
\*   rem     the map the pass is building or mutating
\*   cells   grid.cells
\*   counter rectangleCounter
PassState(status, rem, cells, counter) ==
    [status |-> status, rem |-> rem, cells |-> cells, counter |-> counter]

\* filterByRectAndFind filtering against the grid as it was when the pass began
RECURSIVE RectLoopStaleGrid(_, _, _, _)
RectLoopStaleGrid(remainingPossibilities, grid, k, st) ==
    IF k > Len(remainingPossibilities) \/ st.status # "ok" THEN st
    ELSE LET g == [grid EXCEPT !.cells = st.cells]
             areaCoord == remainingPossibilities[k].key
             accurateAreaPossibilities ==
                 SelectSeq(remainingPossibilities[k].val, LAMBDA p : isZoneFree(p, grid))
         IN IF Len(accurateAreaPossibilities) = 0
            THEN [st EXCEPT !.status = "null"]
            ELSE IF Len(accurateAreaPossibilities) = 1
            THEN LET a == addRectangle(accurateAreaPossibilities[1], g, st.counter)
                 IN RectLoopStaleGrid(remainingPossibilities, grid, k + 1,
                             IF a.threw THEN [st EXCEPT !.status = "throw"]
                             ELSE [st EXCEPT !.cells = a.cells,
                                             !.counter = a.rectangleCounter])
            ELSE RectLoopStaleGrid(remainingPossibilities, grid, k + 1,
                          [st EXCEPT !.rem = MapSet(st.rem, areaCoord,
                                                    accurateAreaPossibilities)])

\* filterByRectAndFind, from entry k of remainingPossibilities; st.rem is
\* reducedPossibilities
RECURSIVE RectLoop(_, _, _, _)
RectLoop(remainingPossibilities, grid, k, st) ==
    IF k > Len(remainingPossibilities) \/ st.status # "ok" THEN st
    ELSE LET g == [grid EXCEPT !.cells = st.cells]
             areaCoord == remainingPossibilities[k].key
             accurateAreaPossibilities ==
                 SelectSeq(remainingPossibilities[k].val, LAMBDA p : isZoneFree(p, g))
         IN IF Len(accurateAreaPossibilities) = 0
            THEN [st EXCEPT !.status = "null"]
            ELSE IF Len(accurateAreaPossibilities) = 1
            THEN LET a == addRectangle(accurateAreaPossibilities[1], g, st.counter)
                 IN RectLoop(remainingPossibilities, grid, k + 1,
                             IF a.threw THEN [st EXCEPT !.status = "throw"]
                             ELSE [st EXCEPT !.cells = a.cells,
                                             !.counter = a.rectangleCounter])
            ELSE RectLoop(remainingPossibilities, grid, k + 1,
                          [st EXCEPT !.rem = MapSet(st.rem, areaCoord,
                                                    accurateAreaPossibilities)])

filterByRectAndFind(remainingPossibilities, grid, counter) ==
    RectLoop(remainingPossibilities, grid, 1, PassState("ok", <<>>, grid.cells, counter))

\* filterByCellAndFind without its "areasPossibilities.size === 0" branch
CellStepNoEmptyCheck(entry, grid, st) ==
    LET g == [grid EXCEPT !.cells = st.cells]
        cellCoord == stringToCoord(entry.key)
        areasPossibilities == entry.val
    IN IF g.cells[cellCoord.y][cellCoord.x] # 0 \/ Len(areasPossibilities) # 1 THEN st
       ELSE LET areaCoord == areasPossibilities[1].key
                cellPossibilities == areasPossibilities[1].val
                areaCoordObj == stringToCoord(areaCoord)
            IN IF g.cells[areaCoordObj.y][areaCoordObj.x] # 0 THEN st
               ELSE IF Len(cellPossibilities) = 1
               THEN IF isZoneFree(cellPossibilities[1], g)
                    THEN LET a == addRectangle(cellPossibilities[1], g, st.counter)
                         IN [st EXCEPT !.cells = a.cells,
                                       !.counter = a.rectangleCounter,
                                       !.rem = MapDelete(st.rem, areaCoord)]
                    ELSE [st EXCEPT !.status = "null"]
               ELSE IF Len(MapGet(st.rem, areaCoord)) > Len(cellPossibilities)
               THEN [st EXCEPT !.rem = MapSet(st.rem, areaCoord, cellPossibilities)]
               ELSE st

\* filterByCellAndFind placing a cell's only candidate without reading the board
\* (neither the clue's cell nor isZoneFree)
CellStepNoZoneCheck(entry, grid, st) ==
    LET g == [grid EXCEPT !.cells = st.cells]
        cellCoord == stringToCoord(entry.key)
        areasPossibilities == entry.val
    IN IF g.cells[cellCoord.y][cellCoord.x] # 0 THEN st
       ELSE IF Len(areasPossibilities) = 1
       THEN LET areaCoord == areasPossibilities[1].key
                cellPossibilities == areasPossibilities[1].val
            IN IF Len(cellPossibilities) = 1
               THEN LET a == addRectangle(cellPossibilities[1], g, st.counter)
                    IN IF a.threw THEN [st EXCEPT !.status = "throw"]
                       ELSE [st EXCEPT !.cells = a.cells,
                                       !.counter = a.rectangleCounter,
                                       !.rem = MapDelete(st.rem, areaCoord)]
               ELSE IF ~MapHas(st.rem, areaCoord)
               THEN [st EXCEPT !.status = "throw"]
               ELSE IF Len(MapGet(st.rem, areaCoord)) > Len(cellPossibilities)
               THEN [st EXCEPT !.rem = MapSet(st.rem, areaCoord, cellPossibilities)]
               ELSE st
       ELSE IF Len(areasPossibilities) = 0
       THEN [st EXCEPT !.status = "null"]
       ELSE st

\* one iteration of the loop of filterByCellAndFind, for the table entry of one cell
CellStep(entry, grid, st) ==
    LET g == [grid EXCEPT !.cells = st.cells]
        cellCoord == stringToCoord(entry.key)
        areasPossibilities == entry.val
    IN IF g.cells[cellCoord.y][cellCoord.x] # 0 THEN st
       ELSE IF Len(areasPossibilities) = 1
       THEN LET areaCoord == areasPossibilities[1].key
                cellPossibilities == areasPossibilities[1].val
                areaCoordObj == stringToCoord(areaCoord)
            IN IF g.cells[areaCoordObj.y][areaCoordObj.x] # 0 THEN st
               ELSE IF Len(cellPossibilities) = 1
               THEN IF isZoneFree(cellPossibilities[1], g)
                    THEN LET a == addRectangle(cellPossibilities[1], g, st.counter)
                         IN IF a.threw THEN [st EXCEPT !.status = "throw"]
                            ELSE [st EXCEPT !.cells = a.cells,
                                            !.counter = a.rectangleCounter,
                                            !.rem = MapDelete(st.rem, areaCoord)]
                    ELSE [st EXCEPT !.status = "null"]
               ELSE IF ~MapHas(st.rem, areaCoord)
               THEN [st EXCEPT !.status = "throw"]
               ELSE IF Len(MapGet(st.rem, areaCoord)) > Len(cellPossibilities)
               THEN [st EXCEPT !.rem = MapSet(st.rem, areaCoord, cellPossibilities)]
               ELSE st
       ELSE IF Len(areasPossibilities) = 0
       THEN [st EXCEPT !.status = "null"]
       ELSE st

RECURSIVE CellLoop(_, _, _, _)
CellLoop(cellsPossibilities, grid, k, st) ==
    IF k > Len(cellsPossibilities) \/ st.status # "ok" THEN st
    ELSE CellLoop(cellsPossibilities, grid, k + 1,
                  CellStep(cellsPossibilities[k], grid, st))

filterByCellAndFind(remainingPossibilities, grid, counter) ==
    CellLoop(emptyCellsPossibilities(remainingPossibilities, grid), grid, 1,
             PassState("ok", remainingPossibilities, grid.cells, counter))

\* resolve as one function: the passes repeated until mapsEqual finds the
\* candidate counts of a pass unchanged, or a pass returns null or throws
RECURSIVE ResolveLoop(_, _, _, _)
ResolveLoop(remainingPossibilities, previousState, grid, counter) ==
    IF mapsEqual(Some(remainingPossibilities), previousState)
    THEN PassState("ok", remainingPossibilities, grid.cells, counter)
    ELSE LET filtered == filterByRectAndFind(remainingPossibilities, grid, counter)
         IN IF filtered.status # "ok" THEN filtered
            ELSE LET cellFiltered ==
                         filterByCellAndFind(filtered.rem,
                                             [grid EXCEPT !.cells = filtered.cells],
                                             filtered.counter)
                 IN IF cellFiltered.status # "ok" THEN cellFiltered
                    ELSE ResolveLoop(cellFiltered.rem, Some(remainingPossibilities),
                                     [grid EXCEPT !.cells = cellFiltered.cells],
                                     cellFiltered.counter)

resolve(remainingPossibilities, grid, counter) ==
    ResolveLoop(remainingPossibilities, Null, grid, counter)

\* a cache key that is the same for every board
zerosHashConstant(grid) == <<>>

\* the cache key: "y,x" of the unassigned active cells, row-major, joined by '|'
zerosHashOf(grid) ==
    LET e == emptyCells(grid) IN [k \in 1..Len(e) |-> coordToString(e[k])]

\* parseInt of a slice of a canonical string; NaN is kept as the value NaN
NaN == -1
DigitValue(ch) == CHOOSE d \in 0..9 : DigitChars[d + 1] = ch
IsDigit(ch) == \E d \in 0..9 : DigitChars[d + 1] = ch
parseInt(str) ==
    IF str = <<>> \/ ~IsDigit(str[1]) THEN NaN
    ELSE IF Len(str) = 1 \/ ~IsDigit(str[2]) THEN DigitValue(str[1])
    ELSE 10 * DigitValue(str[1]) + DigitValue(str[2])

\* cachedResult.slice(idx, idx + 2), idx counted from 0
Slice2(str, idx) ==
    SubSeq(str, idx + 1, IF idx + 2 <= Len(str) THEN idx + 2 ELSE Len(str))

\* the cache-hit branch writing the rectangle counter itself, whatever the
\* cached label
cachedGridCopyOneId(cachedResult, grid, baseCounter) ==
    [grid EXCEPT !.cells =
       [y \in Rows(grid) |-> [x \in Cols(grid) |->
          IF grid.cells[y][x] = 0 /\ grid.activeMask[y][x]
          THEN baseCounter
          ELSE grid.cells[y][x]]]]

\* the cache-hit branch: gridCopy after the loops that write the cached labels,
\* raised by the rectangle counter, into the unassigned active cells
cachedGridCopy(cachedResult, grid, baseCounter) ==
    [grid EXCEPT !.cells =
       [y \in Rows(grid) |-> [x \in Cols(grid) |->
          IF grid.cells[y][x] = 0 /\ grid.activeMask[y][x]
          THEN LET cellValue == parseInt(Slice2(cachedResult,
                                                (y * grid.size.width + x) * 2))
               IN IF cellValue = NaN THEN NaN ELSE cellValue + baseCounter
          ELSE grid.cells[y][x]]]]

\* the cache-hit branch: one string per cached result
applyCached(cachedResult, grid, baseCounter) ==
    lexicographicalGrid(cachedGridCopy(cachedResult, grid, baseCounter))

\* ------------------------------------------------------------- parser.ts
\* The text form of a puzzle, one token per cell: VoidCell for "-", 0 for an
\* empty active cell, n > 0 for a clue.
VoidCell == -1

\* new Grid(size, areas, undefined, activeMask)
NewGrid(height, width, areas, activeMask) ==
    [size |-> [height |-> height, width |-> width],
     areas |-> areas,
     cells |-> [y \in 0..(height - 1) |-> [x \in 0..(width - 1) |-> 0]],
     activeMask |-> activeMask]

\* parseGrid: areas are set in row-major order, for the values > 0
parseGrid(height, width, rows) ==
    LET coords == [k \in 1..(height * width) |->
                      [y |-> (k - 1) \div width, x |-> (k - 1) % width]]
        clueCoords == SelectSeq(coords, LAMBDA c : rows[c.y][c.x] > 0)
    IN NewGrid(height, width,
               [i \in 1..Len(clueCoords) |->
                   [key |-> coordToString(clueCoords[i]),
                    val |-> rows[clueCoords[i].y][clueCoords[i].x]]],
               [y \in 0..(height - 1) |-> [x \in 0..(width - 1) |->
                   rows[y][x] # VoidCell]])

\* ------------------------------------------------------------- inputs
RECURSIVE ClueCount(_, _)
ClueCount(rows, coords) ==
    IF coords = <<>> THEN 0
    ELSE (IF rows[Head(coords).y][Head(coords).x] > 0 THEN 1 ELSE 0)
           + ClueCount(rows, Tail(coords))

\* the texts of the given size with at most maxClues clues
IsText(height, width, rows, maxClues) ==
    ClueCount(rows, [k \in 1..(height * width) |->
                       [y |-> (k - 1) \div width, x |-> (k - 1) % width]]) <= maxClues

\* g is what parseGrid makes of some text within the bounds
ParsedBoard(g, maxH, maxW, maxCells, maxClues, maxValue) ==
    \E h \in 1..maxH, w \in 1..maxW :
        /\ h * w <= maxCells
        /\ \E rows \in [0..(h - 1) -> [0..(w - 1) -> VoidCell..maxValue]] :
              /\ IsText(h, w, rows, maxClues)
              /\ g = parseGrid(h, w, rows)

TextTwoByFour(r0, r1) == [y \in 0..1 |-> [x \in 0..3 |-> IF y = 0 THEN r0[x + 1] ELSE r1[x + 1]]]

\* 4 2 / 0 2 2 0 / 2 0 0 2 : search meets the same set of unassigned cells twice
BoardTwoByFour == parseGrid(2, 4, TextTwoByFour(<<0, 2, 2, 0>>, <<2, 0, 0, 2>>))
\* two boards that leave the same set of unassigned cells when search branches
BoardFourFour == parseGrid(2, 4, TextTwoByFour(<<0, 0, 0, 4>>, <<0, 4, 0, 0>>))
BoardFourTwoTwo == parseGrid(2, 4, TextTwoByFour(<<0, 0, 4, 0>>, <<2, 0, 0, 2>>))

SeedBoards == {BoardTwoByFour, BoardFourFour, BoardFourTwoTwo}

\* the same Grid with its clues inserted in another order
Orders(n) == {f \in [1..n -> 1..n] : \A i, j \in 1..n : f[i] = f[j] => i = j}
Reorderings(g) ==
    {[g EXCEPT !.areas = [i \in 1..Len(g.areas) |-> g.areas[f[i]]]] :
        f \in Orders(Len(g.areas))}

ZeroCells(g) == [y \in Rows(g) |-> [x \in Cols(g) |-> 0]]
Fresh(g) == [g EXCEPT !.cells = ZeroCells(g)]

\* ------------------------------------------------------------- state
VARIABLES
    grid,              \* the Grid object handed to shikakuSolve
    rectangleCounter,  \* solver.ts:13
    cache,             \* solver.ts:14, a function from zerosHash to Set<string>
    stack,             \* the resolveWithAssumptions frames, innermost last
    phase,             \* "idle", "solving", "returned" or "threw"
    result,            \* what shikakuSolve returned: Null or Some(set of strings)
    history,           \* the calls of shikakuSolve so far: input, status, output
    direct,            \* the last direct call of addRectangle, or Null
    app                \* the React state of App: grid, solutions, currentSolutionIndex,
                       \* solving, error, and the pending setTimeout callback

vars == <<grid, rectangleCounter, cache, stack, phase, result, history, direct, app>>

Top == stack[Len(stack)]
TopGrid == [grid EXCEPT !.cells = Top.cells]

\* a frame of resolveWithAssumptions at the head of the while loop of resolve
NewFrame(remainingPossibilities, cells) ==
    [pc |-> "while",
     remainingPossibilities |-> remainingPossibilities,
     previousState |-> Null,
     cells |-> cells,
     zerosHash |-> <<>>,
     todo |-> <<>>,
     correctSolutions |-> {},
     ret |-> Null]

SetTop(f) == [stack EXCEPT ![Len(stack)] = f]
SetLast(h, status, output) ==
    [h EXCEPT ![Len(h)] = [@ EXCEPT !.status = status, !.output = output]]

\* resetSolver without cache.clear()
resetSolverKeepCache == [rectangleCounter |-> 1, cache |-> cache]

resetSolver == [rectangleCounter |-> 1, cache |-> <<>>]

\* useState of App for the grid g: nothing solved, no timer pending; edits
\* counts the cell edits made so far and edit is the last one: cell and text
AppState(g) ==
    [grid |-> g,
     solutions |-> Null,
     currentSolutionIndex |-> 0,
     solving |-> FALSE,
     error |-> Null,
     timer |-> Null,
     edits |-> 0,
     edit |-> Null]

\* new Grid(size, new Map())
EmptyGrid(height, width) ==
    NewGrid(height, width, <<>>,
            [y \in 0..(height - 1) |-> [x \in 0..(width - 1) |-> TRUE]])

SolverIdle ==
    /\ rectangleCounter = 1
    /\ cache = <<>>
    /\ stack = <<>>
    /\ phase = "idle"
    /\ result = Null
    /\ history = <<>>
    /\ direct = Null

Idle ==
    /\ SolverIdle
    /\ app = AppState(EmptyGrid(5, 5))

Init ==
    /\ \/ ParsedBoard(grid, MaxH, MaxW, MaxCells, MaxClues, MaxValue)
       \/ grid \in SeedBoards
    /\ Idle

\* shikakuSolve(g): resetSolver(), the initial possibilities, and the call of
\* resolveWithAssumptions on the caller's Grid object itself
shikakuSolve(g) ==
    /\ grid' = g
    /\ rectangleCounter' = resetSolver.rectangleCounter
    /\ cache' = resetSolver.cache
    /\ stack' = <<NewFrame(initialPossibilitiesCalculation(g), g.cells)>>
    /\ phase' = "solving"
    /\ history' = Append(history, [input |-> g, status |-> "solving", output |-> Null])
    /\ UNCHANGED <<result, direct, app>>

SolveCall ==
    /\ phase = "idle"
    /\ shikakuSolve(grid)

\* an exception leaves every frame; the caller's grid keeps what the outermost
\* frame wrote
Thrown(st) ==
    /\ phase' = "threw"
    /\ grid' = [grid EXCEPT !.cells = IF Len(stack) = 1 THEN st.cells ELSE stack[1].cells]
    /\ stack' = <<>>
    /\ rectangleCounter' = st.counter
    /\ history' = SetLast(history, "threw", Null)
    /\ UNCHANGED <<cache, result, direct, app>>

\* resolve, first half of a pass: the loop test, previousState, filterByRectAndFind
RectPass ==
    /\ phase = "solving"
    /\ Top.pc = "while"
    /\ ~mapsEqual(Some(Top.remainingPossibilities), Top.previousState)
    /\ LET st == filterByRectAndFind(Top.remainingPossibilities, TopGrid, rectangleCounter)
       IN IF st.status = "throw" THEN Thrown(st)
          ELSE /\ rectangleCounter' = st.counter
               /\ stack' = SetTop([Top EXCEPT
                     !.previousState = Some(Top.remainingPossibilities),
                     !.cells = st.cells,
                     !.remainingPossibilities =
                         IF st.status = "null" THEN @ ELSE st.rem,
                     !.pc = IF st.status = "null" THEN "return" ELSE "cell",
                     !.ret = Null])
               /\ UNCHANGED <<grid, cache, phase, result, history, direct, app>>

\* resolve, second half of a pass: filterByCellAndFind
CellPass ==
    /\ phase = "solving"
    /\ Top.pc = "cell"
    /\ LET st == filterByCellAndFind(Top.remainingPossibilities, TopGrid, rectangleCounter)
       IN IF st.status = "throw" THEN Thrown(st)
          ELSE /\ rectangleCounter' = st.counter
               /\ stack' = SetTop([Top EXCEPT
                     !.cells = st.cells,
                     !.remainingPossibilities =
                         IF st.status = "null" THEN @ ELSE st.rem,
                     !.pc = IF st.status = "null" THEN "return" ELSE "while",
                     !.ret = Null])
               /\ UNCHANGED <<grid, cache, phase, result, history, direct, app>>

\* resolve has left its loop and returns remainingPossibilities
Converged ==
    /\ phase = "solving"
    /\ Top.pc = "while"
    /\ mapsEqual(Some(Top.remainingPossibilities), Top.previousState)

\* resolved.size === 0: the grid is complete
Solved ==
    /\ Converged
    /\ Len(Top.remainingPossibilities) = 0
    /\ stack' = SetTop([Top EXCEPT !.pc = "return",
                                   !.ret = Some({lexicographicalGrid(TopGrid)})])
    /\ UNCHANGED <<grid, rectangleCounter, cache, phase, result, history, direct, app>>

\* cache.has(zerosHash): the cached strings are replayed on copies of the grid
CacheHit ==
    /\ Converged
    /\ Len(Top.remainingPossibilities) > 0
    /\ LET zerosHash == zerosHashOf(TopGrid)
       IN /\ zerosHash \in DOMAIN cache
          /\ LET cachedResults == cache[zerosHash]
                 solutions == {applyCached(cachedResult, TopGrid, rectangleCounter) :
                                  cachedResult \in cachedResults}
             IN stack' = SetTop([Top EXCEPT
                    !.pc = "return",
                    !.zerosHash = zerosHash,
                    !.ret = IF cachedResults = {} THEN Null ELSE Some(solutions)])
    /\ UNCHANGED <<grid, rectangleCounter, cache, phase, result, history, direct, app>>

\* no cache entry: the assumptions to try, one per possibility of the candidate
Assume ==
    /\ Converged
    /\ Len(Top.remainingPossibilities) > 0
    /\ LET zerosHash == zerosHashOf(TopGrid)
       IN /\ zerosHash \notin DOMAIN cache
          /\ stack' = SetTop([Top EXCEPT
                 !.pc = "assume",
                 !.zerosHash = zerosHash,
                 !.todo = getAssumedPossibilitiesFromAnArea(Top.remainingPossibilities),
                 !.correctSolutions = {}])
    /\ UNCHANGED <<grid, rectangleCounter, cache, phase, result, history, direct, app>>

\* resolveWithAssumptions(assumedPossibilities, grid.copy()) for the next assumption
Recurse ==
    /\ phase = "solving"
    /\ Top.pc = "assume"
    /\ Top.todo # <<>>
    /\ stack' = Append(SetTop([Top EXCEPT !.todo = Tail(@)]),
                       NewFrame(Head(Top.todo).assumedPossibilities, Top.cells))
    /\ UNCHANGED <<grid, rectangleCounter, cache, phase, result, history, direct, app>>

\* after the last assumption: cache.set(zerosHash, correctSolutions)
CacheStore ==
    /\ phase = "solving"
    /\ Top.pc = "assume"
    /\ Top.todo = <<>>
    /\ cache' = [k \in DOMAIN cache \cup {Top.zerosHash} |->
                    IF k = Top.zerosHash THEN Top.correctSolutions ELSE cache[k]]
    /\ stack' = SetTop([Top EXCEPT
           !.pc = "return",
           !.ret = IF Top.correctSolutions # {} THEN Some(Top.correctSolutions) ELSE Null])
    /\ UNCHANGED <<grid, rectangleCounter, phase, result, history, direct, app>>

\* a frame returning as if its grid were the grid of its caller and not a copy:
\* what it wrote is on the caller's board
ReturnSharedGrid ==
    /\ phase = "solving"
    /\ Top.pc = "return"
    /\ IF Len(stack) = 1
       THEN /\ result' = Top.ret
            /\ grid' = [grid EXCEPT !.cells = Top.cells]
            /\ stack' = <<>>
            /\ phase' = "returned"
            /\ history' = SetLast(history, "returned", Top.ret)
       ELSE /\ LET parent == stack[Len(stack) - 1]
               IN stack' = [SubSeq(stack, 1, Len(stack) - 1) EXCEPT ![Len(stack) - 1] =
                      [parent EXCEPT !.cells = Top.cells,
                                     !.correctSolutions =
                          IF Top.ret.isNull THEN @ ELSE @ \cup Top.ret.value]]
            /\ UNCHANGED <<grid, phase, result, history>>
    /\ UNCHANGED <<rectangleCounter, cache, direct, app>>

\* a frame returns: to the loop over the assumptions of its caller, or, for the
\* outermost frame, to the caller of shikakuSolve, whose Grid object holds what
\* that frame wrote
Return ==
    /\ phase = "solving"
    /\ Top.pc = "return"
    /\ IF Len(stack) = 1
       THEN /\ result' = Top.ret
            /\ grid' = [grid EXCEPT !.cells = Top.cells]
            /\ stack' = <<>>
            /\ phase' = "returned"
            /\ history' = SetLast(history, "returned", Top.ret)
       ELSE /\ LET parent == stack[Len(stack) - 1]
               IN stack' = [SubSeq(stack, 1, Len(stack) - 1) EXCEPT ![Len(stack) - 1] =
                      [parent EXCEPT !.correctSolutions =
                          IF Top.ret.isNull THEN @ ELSE @ \cup Top.ret.value]]
            /\ UNCHANGED <<grid, phase, result, history>>
    /\ UNCHANGED <<rectangleCounter, cache, direct, app>>

Next ==
    \/ SolveCall
    \/ RectPass
    \/ CellPass
    \/ Solved
    \/ CacheHit
    \/ Assume
    \/ Recurse
    \/ CacheStore
    \/ Return

Spec == Init /\ [][Next]_vars

\* ------------------------------------------------------------- repeated calls
\* A caller that calls shikakuSolve again after it returned: with the very Grid
\* object it passed before, or with a new Grid (all cells 0): an earlier board
\* again, an earlier board with its clues inserted in another order, or, as the
\* second call, one of the seed boards.
SolveSameGrid ==
    /\ phase = "returned"
    /\ Len(history) < MaxCalls
    /\ shikakuSolve(grid)

OtherGrids ==
    UNION {Reorderings(Fresh(history[i].input)) : i \in 1..Len(history)}
      \cup (IF Len(history) = 1 THEN SeedBoards ELSE {})

SolveOtherGrid ==
    /\ phase = "returned"
    /\ Len(history) < MaxCalls
    /\ \E g \in OtherGrids : shikakuSolve(g)

InitRepeat ==
    /\ \/ ParsedBoard(grid, SmallH, SmallW, SmallH * SmallW, SmallClues, SmallValue)
       \/ grid \in SeedBoards
    /\ Idle

NextRepeat ==
    \/ Next
    \/ SolveSameGrid
    \/ SolveOtherGrid

SpecRepeat == InitRepeat /\ [][NextRepeat]_vars

\* ------------------------------------------------------------- malformed boards
\* A Grid built by new Grid(size, areas, undefined, activeMask) from a parsed
\* board and one more entry of the clue map, put first or last, that parseGrid
\* never makes: a clue on a void cell, or a clue whose value is 0 or -1.
WithClue(g, c, v, first) ==
    [g EXCEPT !.areas = IF first THEN <<[key |-> coordToString(c), val |-> v]>> \o @
                        ELSE Append(@, [key |-> coordToString(c), val |-> v])]

MalformedBoard(g, maxH, maxW, maxClues, maxValue) ==
    \E h \in 1..maxH, w \in 1..maxW :
        \E rows \in [0..(h - 1) -> [0..(w - 1) -> VoidCell..maxValue]] :
            /\ IsText(h, w, rows, maxClues)
            /\ \E y \in 0..(h - 1), x \in 0..(w - 1), v \in (-1)..maxValue, first \in BOOLEAN :
                  /\ rows[y][x] <= 0
                  /\ v < 1 \/ rows[y][x] = VoidCell
                  /\ g = WithClue(parseGrid(h, w, rows), [y |-> y, x |-> x], v, first)

InitContract ==
    /\ \/ MalformedBoard(grid, SmallH, SmallW, SmallClues, SmallValue)
       \/ grid \in SeedBoards
    /\ Idle

SpecContract == InitContract /\ [][Next]_vars

\* ------------------------------------------------------------- addRectangle alone
\* addRectangle called on a board by itself, with any rectangle that starts in
\* the board and is no larger than it; the caller catches the exception and may
\* call again.
AddCall ==
    /\ phase = "idle"
    /\ rectangleCounter <= MaxAdds
    /\ \E y \in Rows(grid), x \in Cols(grid),
          height \in 1..grid.size.height, width \in 1..grid.size.width :
          LET possibility == [start |-> [y |-> y, x |-> x],
                              size |-> [height |-> height, width |-> width]]
              a == addRectangle(possibility, grid, rectangleCounter)
          IN /\ grid' = [grid EXCEPT !.cells = a.cells]
             /\ rectangleCounter' = a.rectangleCounter
             /\ direct' = Some([possibility |-> possibility,
                                before |-> grid.cells,
                                threw |-> a.threw])
    /\ UNCHANGED <<cache, stack, phase, result, history, app>>

InitAdd ==
    /\ ParsedBoard(grid, SmallH, SmallW, SmallH * SmallW, 0, 0)
    /\ Idle

NextAdd == AddCall

SpecAdd == InitAdd /\ [][NextAdd]_vars

\* ------------------------------------------------------------- seed scenarios
\* the text rows of a board, given as a sequence of sequences
TextRows(rs) == [y \in 0..(Len(rs) - 1) |-> [x \in 0..(Len(rs[1]) - 1) |-> rs[y + 1][x + 1]]]

\* 3 3 / 3 0 0 / 0 0 0 / 0 0 6
BoardThreeThree == parseGrid(3, 3, TextRows(<< <<3, 0, 0>>, <<0, 0, 0>>, <<0, 0, 6>> >>))
\* 5 5 / 0 0 4 0 0 / 0 0 0 0 0 / 3 0 0 0 6 / 0 0 0 0 0 / 0 0 4 0 8
BoardFiveFive ==
    parseGrid(5, 5, TextRows(<< <<0, 0, 4, 0, 0>>, <<0, 0, 0, 0, 0>>, <<3, 0, 0, 0, 6>>,
                                <<0, 0, 0, 0, 0>>, <<0, 0, 4, 0, 8>> >>))

InitSeeds ==
    /\ grid \in {BoardThreeThree, BoardFiveFive} \cup SeedBoards
    /\ Idle

SpecSeeds == InitSeeds /\ [][Next]_vars

\* ------------------------------------------------------------- App.tsx
\* The handlers of App and GridInput. JavaScript runs a handler or a timer
\* callback to completion, so the user's handlers act only while no callback
\* runs (phase = "idle"); the callback of handleSolve is SolveTimeout, the
\* steps of the solver, and SolveFinished.
SolverVars == <<grid, rectangleCounter, cache, stack, phase, result, history, direct>>

\* Grid.copy()
copy(g) == [size |-> g.size, areas |-> g.areas, cells |-> g.cells, activeMask |-> g.activeMask]

NoSolutionText == "No solution found for this puzzle."
ErrorText == "Error solving puzzle: Attempted to fill inactive cell with rectangle"

\* the texts typed into a cell
InputTexts == {<<"-">>, <<>>, <<"0">>, <<"2">>, <<"a">>, <<"3", "x">>}

\* handleSolve up to setTimeout: the callback closes over the grid of this render
handleSolve ==
    /\ phase = "idle"
    /\ ~app.solving
    /\ Len(history) < MaxClicks
    /\ app' = [app EXCEPT !.solving = TRUE,
                          !.error = Null,
                          !.solutions = Null,
                          !.currentSolutionIndex = 0,
                          !.timer = Some(app.grid)]
    /\ UNCHANGED SolverVars

\* the callback starts: shikakuSolve(grid.copy())
SolveTimeout ==
    /\ phase = "idle"
    /\ ~app.timer.isNull
    /\ shikakuSolve(copy(app.timer.value))

\* the callback without its finally block after a failure
SolveFinishedNoFinally ==
    /\ phase \in {"returned", "threw"}
    /\ ~app.timer.isNull
    /\ LET found == phase = "returned" /\ ~result.isNull /\ result.value # {}
       IN app' = [app EXCEPT
              !.solutions = IF found THEN Some(result.value) ELSE @,
              !.currentSolutionIndex = IF found THEN 0 ELSE @,
              !.error = IF phase = "threw" THEN Some(ErrorText)
                        ELSE IF found THEN @ ELSE Some(NoSolutionText),
              !.solving = IF found THEN FALSE ELSE @,
              !.timer = Null]
    /\ phase' = "idle"
    /\ UNCHANGED <<grid, rectangleCounter, cache, stack, result, history, direct>>

\* the callback ends: setSolutions or setError, and finally setSolving(false)
SolveFinished ==
    /\ phase \in {"returned", "threw"}
    /\ ~app.timer.isNull
    /\ LET found == phase = "returned" /\ ~result.isNull /\ result.value # {}
       IN app' = [app EXCEPT
              !.solutions = IF found THEN Some(result.value) ELSE @,
              !.currentSolutionIndex = IF found THEN 0 ELSE @,
              !.error = IF phase = "threw" THEN Some(ErrorText)
                        ELSE IF found THEN @ ELSE Some(NoSolutionText),
              !.solving = FALSE,
              !.timer = Null]
    /\ phase' = "idle"
    /\ UNCHANGED <<grid, rectangleCounter, cache, stack, result, history, direct>>

handleGridSizeChange ==
    /\ phase = "idle"
    /\ \E width \in 1..AppMaxW, height \in 1..AppMaxH :
          app' = [app EXCEPT !.grid = EmptyGrid(height, width),
                             !.solutions = Null,
                             !.error = Null]
    /\ UNCHANGED SolverVars

handleClearGrid ==
    /\ phase = "idle"
    /\ app' = [app EXCEPT !.grid = NewGrid(app.grid.size.height, app.grid.size.width,
                                            <<>>, app.grid.activeMask),
                          !.solutions = Null,
                          !.error = Null]
    /\ UNCHANGED SolverVars

\* GridInput.handleInputChange(value) with the cell (y, x) selected: the new grid
EditedGrid(g, y, x, value) ==
    LET newGrid == copy(g)
        key == coordToString([y |-> y, x |-> x])
    IN IF value = <<"-">>
       THEN [newGrid EXCEPT !.activeMask[y][x] = FALSE, !.areas = MapDelete(@, key)]
       ELSE IF value = <<>> \/ value = <<"0">>
       THEN [newGrid EXCEPT !.activeMask[y][x] = TRUE, !.areas = MapDelete(@, key)]
       ELSE LET numValue == parseInt(value)
            IN IF numValue # NaN /\ numValue > 0 /\ numValue <= 99
               THEN [newGrid EXCEPT !.activeMask[y][x] = TRUE,
                                    !.areas = MapSet(@, key, numValue)]
               ELSE newGrid

\* the input of a selected cell is rendered only for a cell of the grid
handleInputChange ==
    /\ phase = "idle"
    /\ app.edits < MaxEdits
    /\ \E y \in Rows(app.grid), x \in Cols(app.grid), value \in InputTexts :
          app' = [app EXCEPT !.grid = EditedGrid(app.grid, y, x, value),
                             !.edits = @ + 1,
                             !.edit = Some([y |-> y, x |-> x, value |-> value])]
    /\ UNCHANGED SolverVars

\* the Previous and Next buttons, rendered when there are several solutions
PreviousSolution ==
    /\ phase = "idle"
    /\ ~app.solutions.isNull
    /\ Cardinality(app.solutions.value) > 1
    /\ app.currentSolutionIndex # 0
    /\ app' = [app EXCEPT !.currentSolutionIndex =
                  IF 0 > @ - 1 THEN 0 ELSE @ - 1]
    /\ UNCHANGED SolverVars

NextSolution ==
    /\ phase = "idle"
    /\ ~app.solutions.isNull
    /\ Cardinality(app.solutions.value) > 1
    /\ app.currentSolutionIndex # Cardinality(app.solutions.value) - 1
    /\ app' = [app EXCEPT !.currentSolutionIndex =
                  IF Cardinality(app.solutions.value) - 1 < @ + 1
                  THEN Cardinality(app.solutions.value) - 1 ELSE @ + 1]
    /\ UNCHANGED SolverVars

\* the editor starts on an empty grid of one of the sizes offered, or on the
\* 2x4 board already typed in
InitApp ==
    /\ SolverIdle
    /\ grid = EmptyGrid(5, 5)
    /\ \E g \in {EmptyGrid(h, w) : h \in 1..AppMaxH, w \in 1..AppMaxW} \cup {BoardTwoByFour} :
          app = AppState(g)

SolverStep ==
    \/ RectPass
    \/ CellPass
    \/ Solved
    \/ CacheHit
    \/ Assume
    \/ Recurse
    \/ CacheStore
    \/ Return

Callback ==
    \/ SolveTimeout
    \/ SolverStep
    \/ SolveFinished

NextApp ==
    \/ handleSolve
    \/ Callback
    \/ handleGridSizeChange
    \/ handleClearGrid
    \/ handleInputChange
    \/ PreviousSolution
    \/ NextSolution

SpecApp == InitApp /\ [][NextApp]_vars

\* WF_vars(SolverStep), with ENABLED <<SolverStep>>_vars written as the
\* predicate it equals: while shikakuSolve runs, one of its steps can be taken
SolverRuns == []<>(phase # "solving") \/ []<><<SolverStep>>_vars

\* the timer fires and the callback runs to its end
SpecAppFair ==
    /\ SpecApp
    /\ WF_vars(SolveTimeout)
    /\ SolverRuns
    /\ WF_vars(SolveFinished)

\* ------------------------------------------------------------- cache scenarios
\* a 2x4 board whose branches leave different sets of unassigned cells as well
\* as equal ones
BoardFourTwos == parseGrid(2, 4, TextTwoByFour(<<2, 0, 2, 0>>, <<0, 2, 0, 2>>))

\* boards on which a branch assumption ends in null: one without a solution
\* and one with two
BoardDeadEnds == parseGrid(3, 3, TextRows(<< <<3, 0, 0>>, <<0, 2, 0>>, <<0, 0, 3>> >>))
BoardDeadEndSolved ==
    parseGrid(3, 4, TextRows(<< <<2, 0, 0, 3>>, <<0, 4, 0, 0>>, <<0, 0, 3, 0>> >>))

\* a 2x5 board on which filterByCellAndFind prunes the list of one clue twice
\* in one pass
BoardPrunedTwice ==
    parseGrid(2, 5, TextRows(<< <<0, 0, 0, 4, 0>>, <<4, 0, 0, 0, 0>> >>))

InitCache ==
    /\ \/ ParsedBoard(grid, MaxH, MaxW, MaxCells, MaxClues, MaxValue)
       \/ grid \in SeedBoards \cup {BoardFourTwos, BoardDeadEnds, BoardDeadEndSolved,
                                   BoardPrunedTwice}
    /\ Idle

SpecCache == InitCache /\ [][Next]_vars

\* a call of shikakuSolve that has begun goes on running, and a frame that has
\* its return value returns
SpecCacheFair ==
    /\ SpecCache
    /\ SolverRuns
    /\ WF_vars(Return)

\* ------------------------------------------------------------- reference
\* Shikaku itself, stated without the solver: the partitions of the active
\* cells into rectangles with one clue each, of the clue's area, found by
\* trying every rectangle for every clue.
GridCoords(g) == {[y |-> r, x |-> c] : r \in Rows(g), c \in Cols(g)}
ActiveCoords(g) == {c \in GridCoords(g) : g.activeMask[c.y][c.x]}
ClueCoords(g) == {stringToCoord(g.areas[i].key) : i \in 1..Len(g.areas)}

\* the cell sets of all rectangles inside the grid
RectangleSets(g) ==
    {{c \in GridCoords(g) : c.y \in y0..y1 /\ c.x \in x0..x1} :
        y0 \in Rows(g), y1 \in Rows(g), x0 \in Cols(g), x1 \in Cols(g)} \ {{}}

RectanglesOfClue(g, i) ==
    {R \in RectangleSets(g) :
        /\ Cardinality(R) = g.areas[i].val
        /\ R \subseteq ActiveCoords(g)
        /\ R \cap ClueCoords(g) = {stringToCoord(g.areas[i].key)}}

RECURSIVE PartitionsFrom(_, _, _)
PartitionsFrom(g, i, used) ==
    IF i > Len(g.areas)
    THEN IF used = ActiveCoords(g) THEN {{}} ELSE {}
    ELSE UNION {{P \cup {R} : P \in PartitionsFrom(g, i + 1, used \cup R)} :
                  R \in {R \in RectanglesOfClue(g, i) : R \cap used = {}}}

AllPartitions(g) == PartitionsFrom(g, 1, {})

\* the canonical string of a partition: a rectangle's label is the number of
\* rectangles that start before it in row-major order
RowMajorIndex(g, c) == c.y * g.size.width + c.x
FirstIndex(g, R) == CHOOSE k \in {RowMajorIndex(g, c) : c \in R} :
                        \A c \in R : k <= RowMajorIndex(g, c)
LabelOf(g, P, R) == Cardinality({Q \in P : FirstIndex(g, Q) < FirstIndex(g, R)})

CanonicalOfPartition(g, P) ==
    [j \in 1..(2 * g.size.height * g.size.width) |->
        LET k == (j - 1) \div 2
            c == [y |-> k \div g.size.width, x |-> k % g.size.width]
        IN IF c \notin ActiveCoords(g) THEN "-"
           ELSE LET l == LabelOf(g, P, CHOOSE R \in P : c \in R) % 100
                IN IF j % 2 = 1 THEN DigitChars[(l \div 10) + 1] ELSE DigitChars[(l % 10) + 1]]

BruteForce(g) ==
    IF AllPartitions(g) = {} THEN Null
    ELSE Some({CanonicalOfPartition(g, P) : P \in AllPartitions(g)})

Returned == phase = "returned"
Solutions == IF result.isNull THEN {} ELSE result.value

\* reading a returned string: the token of a cell, and the cells of a label
WellSized(g, str) == Len(str) = 2 * g.size.height * g.size.width
TokenAt(g, str, c) == SubSeq(str, 2 * RowMajorIndex(g, c) + 1, 2 * RowMajorIndex(g, c) + 2)
LabelsOf(g, str) == {TokenAt(g, str, c) : c \in GridCoords(g)} \ {VOID_TOKEN}
CellsOfLabel(g, str, l) == {c \in GridCoords(g) : TokenAt(g, str, c) = l}
PartitionOfString(g, str) == {CellsOfLabel(g, str, l) : l \in LabelsOf(g, str)}

\* The search of resolveWithAssumptions with the cache lookup and the cache
\* store left out: resolve, then one recursive call per assumption, the
\* rectangle counter handed from call to call. The value is the set of strings
\* found (empty for a null return), whether an exception left the search, and
\* the counter afterwards.
RECURSIVE SearchWithoutCache(_, _, _)
RECURSIVE BranchesWithoutCache(_, _, _, _)
SearchWithoutCache(remainingPossibilities, g, counter) ==
    LET resolved == resolve(remainingPossibilities, g, counter)
        after == [g EXCEPT !.cells = resolved.cells]
    IN IF resolved.status = "throw"
       THEN [threw |-> TRUE, found |-> {}, counter |-> resolved.counter]
       ELSE IF resolved.status = "null"
       THEN [threw |-> FALSE, found |-> {}, counter |-> resolved.counter]
       ELSE IF Len(resolved.rem) = 0
       THEN [threw |-> FALSE, found |-> {lexicographicalGrid(after)},
             counter |-> resolved.counter]
       ELSE BranchesWithoutCache(getAssumedPossibilitiesFromAnArea(resolved.rem), after,
                                 [threw |-> FALSE, found |-> {}, counter |-> resolved.counter],
                                 1)

BranchesWithoutCache(todo, g, acc, k) ==
    IF k > Len(todo) \/ acc.threw THEN acc
    ELSE LET sub == SearchWithoutCache(todo[k].assumedPossibilities, g, acc.counter)
         IN BranchesWithoutCache(todo, g,
                                 [threw |-> sub.threw,
                                  found |-> acc.found \cup sub.found,
                                  counter |-> sub.counter],
                                 k + 1)

\* shikakuSolve with the cache disabled
SolveWithoutCache(g) ==
    LET r == SearchWithoutCache(initialPossibilitiesCalculation(g), g, 1)
    IN IF r.threw THEN [status |-> "threw", output |-> Null]
       ELSE [status |-> "returned",
             output |-> IF r.found = {} THEN Null ELSE Some(r.found)]

\* the rectangles placed on a working board, and the canonical strings of the
\* valid partitions that contain every one of them
PlacedIds(g) == {g.cells[c.y][c.x] : c \in GridCoords(g)} \ {0}
CellsOfId(g, r) == {c \in GridCoords(g) : g.cells[c.y][c.x] = r}
CompletionsOf(g) ==
    {P \in AllPartitions(g) : \A r \in PlacedIds(g) : CellsOfId(g, r) \in P}
CompletionStrings(g) == {CanonicalOfPartition(g, P) : P \in CompletionsOf(g)}
RetSet(ret) == IF ret.isNull THEN {} ELSE ret.value

\* ------------------------------------------------------------- claims
\* C1 (completeness): when shikakuSolve returns, it returns exactly the
\* canonical strings of all valid partitions of the active cells as the
\* brute-force enumeration finds them, and null exactly when there is none.
C1_Completeness == Returned => result = BruteForce(grid)

\* C1 witness: a call returned several solutions, all of them the enumerated ones
C1_Witness ==
    /\ Returned
    /\ Cardinality(Solutions) >= 4
    /\ result = BruteForce(grid)

\* C2 (soundness): in every returned string each label's cells are a filled
\* rectangle of active cells holding exactly one clue, whose value is the
\* rectangle's area, and the labelled cells are exactly the active cells.
SoundString(g, str) ==
    /\ WellSized(g, str)
    /\ \A l \in LabelsOf(g, str) :
          LET R == CellsOfLabel(g, str, l)
          IN /\ R \in RectangleSets(g)
             /\ \E i \in 1..Len(g.areas) :
                   /\ R \cap ClueCoords(g) = {stringToCoord(g.areas[i].key)}
                   /\ g.areas[i].val = Cardinality(R)
    /\ UNION PartitionOfString(g, str) = ActiveCoords(g)

C2_Soundness == Returned => \A str \in Solutions : SoundString(grid, str)

\* C2 witness: a returned solution with a void cell and at least three rectangles
C2_Witness ==
    /\ Returned
    /\ \E str \in Solutions :
          /\ SoundString(grid, str)
          /\ Cardinality(LabelsOf(grid, str)) >= 3
          /\ ActiveCoords(grid) # GridCoords(grid)

\* C3: every returned string has 2*H*W characters; the token of a cell is
\* "--" exactly when the cell is void, and two digits when it is active.
C3_Shape ==
    Returned =>
        \A str \in Solutions :
            /\ Len(str) = 2 * grid.size.height * grid.size.width
            /\ \A c \in GridCoords(grid) :
                  /\ (TokenAt(grid, str, c) = VOID_TOKEN) <=> ~grid.activeMask[c.y][c.x]
                  /\ grid.activeMask[c.y][c.x] =>
                        /\ IsDigit(TokenAt(grid, str, c)[1])
                        /\ IsDigit(TokenAt(grid, str, c)[2])

\* C3 witness: a returned string of a board with void and active cells
C3_Witness ==
    /\ Returned
    /\ \E str \in Solutions :
          /\ Len(str) = 2 * grid.size.height * grid.size.width
          /\ \E c, d \in GridCoords(grid) :
                /\ TokenAt(grid, str, c) = VOID_TOKEN
                /\ TokenAt(grid, str, d) = <<"0", "1">>

\* C6 (canonical uniqueness): renaming the rectangle ids of a working board
\* by any bijection leaves its canonical string unchanged, and no returned set
\* holds two distinct strings that stand for the same partition.
IdsOf(cells, g) == {cells[c.y][c.x] : c \in GridCoords(g)} \ {0}
Rename(cells, g, f) ==
    [y \in Rows(g) |-> [x \in Cols(g) |-> IF cells[y][x] = 0 THEN 0 ELSE f[cells[y][x]]]]
\* the bijections from the ids in use onto themselves, and onto ids shifted by 50
Renamings(ids) ==
    LET perms == {f \in [ids -> ids] : \A a, b \in ids : f[a] = f[b] => a = b}
    IN perms \cup {[a \in ids |-> f[a] + 50] : f \in perms}

RenamingInvariant(g) ==
    \A f \in Renamings(IdsOf(g.cells, g)) :
        lexicographicalGrid([g EXCEPT !.cells = Rename(g.cells, g, f)]) = lexicographicalGrid(g)

C6_CanonicalUniqueness ==
    /\ phase = "solving" => RenamingInvariant(TopGrid)
    /\ Returned =>
          \A s1, s2 \in Solutions :
              (/\ WellSized(grid, s1)
               /\ WellSized(grid, s2)
               /\ PartitionOfString(grid, s1) = PartitionOfString(grid, s2)) => s1 = s2

\* C6 witness: a complete board with three rectangles has just been canonicalized
\* in a search that already found another solution
C6_Witness ==
    /\ phase = "solving"
    /\ Len(stack) >= 2
    /\ Top.pc = "return"
    /\ ~Top.ret.isNull
    /\ Cardinality(IdsOf(Top.cells, grid)) >= 3
    /\ stack[1].correctSolutions # {}

\* C8: a board whose clue values do not sum to the number of active cells has
\* no solution: shikakuSolve returns null, for a sum too small and too large.
RECURSIVE SumOfAreas(_)
SumOfAreas(areas) == IF areas = <<>> THEN 0 ELSE Head(areas).val + SumOfAreas(Tail(areas))
ActiveCount(g) == Cardinality(ActiveCoords(g))

C8_SumMismatch == (Returned /\ SumOfAreas(grid.areas) # ActiveCount(grid)) => result.isNull

\* C8 witness: the sum is too small, every clue got its rectangle, and the
\* call returned null for the cells left over
C8_Witness ==
    /\ Returned
    /\ result.isNull
    /\ Len(grid.areas) >= 2
    /\ SumOfAreas(grid.areas) < ActiveCount(grid)
    /\ \A c \in ClueCoords(grid) : grid.cells[c.y][c.x] # 0

\* C8 witness of the other case is the invariant's second half: sum too large
C8_WitnessTooLarge ==
    /\ Returned
    /\ result.isNull
    /\ SumOfAreas(grid.areas) > ActiveCount(grid)
    /\ \E c \in ClueCoords(grid) : grid.cells[c.y][c.x] # 0

\* the calls that have returned, and boards that are the same puzzle
ReturnedCalls == {i \in 1..Len(history) : history[i].status = "returned"}
SamePuzzle(g1, g2) ==
    /\ g1.size = g2.size
    /\ g1.activeMask = g2.activeMask
    /\ g1.areas = g2.areas
IsFresh(g) == \A y \in Rows(g), x \in Cols(g) : g.cells[y][x] = 0
SameClues(g1, g2) ==
    /\ g1.size = g2.size
    /\ g1.activeMask = g2.activeMask
    /\ Len(g1.areas) = Len(g2.areas)
    /\ SeqToSet(g1.areas) = SeqToSet(g2.areas)

\* C4 (idempotence): two calls of shikakuSolve in succession on the same board
\* return equal results.
C4_Idempotence ==
    \A i \in ReturnedCalls :
        (i + 1 \in ReturnedCalls /\ SamePuzzle(history[i].input, history[i + 1].input))
            => history[i + 1].output = history[i].output

\* C5 (permutation invariance): two boards given with all cells 0 that differ
\* only in the insertion order of the clue map get equal results.
C5_PermutationInvariance ==
    \A i, j \in ReturnedCalls :
        (/\ IsFresh(history[i].input)
         /\ IsFresh(history[j].input)
         /\ SameClues(history[i].input, history[j].input))
            => history[j].output = history[i].output

\* C5 witness: a solved board was solved again with its two clues inserted in
\* the other order
C5_Witness ==
    \E i, j \in ReturnedCalls :
        /\ IsFresh(history[i].input)
        /\ IsFresh(history[j].input)
        /\ SameClues(history[i].input, history[j].input)
        /\ history[j].input.areas # history[i].input.areas
        /\ ~history[i].output.isNull
        /\ history[j].output = history[i].output

\* C7: every call starts with an empty cache and the counter at 1, and the
\* result for a board does not depend on the calls made before: a board solved
\* first by the freshly loaded solver gets the same result when it is solved
\* again (as a new Grid) after calls on other boards, and every call on a new
\* Grid returns what the freshly loaded solver returns for it, which is the
\* enumerated solution set (C1_Completeness).
AtStartOfCall ==
    /\ phase = "solving"
    /\ Len(stack) = 1
    /\ Top.pc = "while"
    /\ Top.previousState.isNull

C7_FreshState ==
    /\ AtStartOfCall => (DOMAIN cache = {} /\ rectangleCounter = 1)
    /\ \A j \in ReturnedCalls :
          (1 \in ReturnedCalls /\ history[j].input = history[1].input)
              => history[j].output = history[1].output
    /\ (Returned /\ IsFresh(history[Len(history)].input))
          => result = BruteForce(history[Len(history)].input)

\* C7 witness: a board with several solutions was solved, then another board
\* on which search branched, then the first board again with the same result
C7_Witness ==
    /\ Returned
    /\ Len(history) = 3
    /\ history[3].input = history[1].input
    /\ ~SamePuzzle(history[2].input, history[1].input)
    /\ ~history[2].output.isNull
    /\ Cardinality(history[2].output.value) >= 2
    /\ ~history[1].output.isNull
    /\ Cardinality(history[1].output.value) >= 2
    /\ history[3].output = history[1].output

\* a clue of the board lies on a void cell or has a value below 1
Malformed(g) ==
    \E i \in 1..Len(g.areas) :
        \/ g.areas[i].val < 1
        \/ ~g.activeMask[stringToCoord(g.areas[i].key).y][stringToCoord(g.areas[i].key).x]

\* C9: shikakuSolve on a board with a clue on a void cell, or with a clue whose
\* value is below 1, aborts with an error: it never returns a result, so the
\* board is never reported as an ordinary unsolvable puzzle.
C9_ContractViolationFatal == Malformed(grid) => phase # "returned"

\* the rectangle of the last direct call held a cell that is outside the board,
\* void, or already assigned
BadRectangle(d) ==
    \E c \in ZoneCells(d.possibility) :
        \/ c.y \notin Rows(grid)
        \/ c.x \notin Cols(grid)
        \/ ~grid.activeMask[c.y][c.x]
        \/ d.before[c.y][c.x] # 0

\* C10: addRectangle with a rectangle that holds a void or an already assigned
\* cell throws and writes no cell; it succeeds only when every cell of the
\* rectangle is active and unassigned.
C10_PlaceRectangleGuarded ==
    ~direct.isNull =>
        /\ BadRectangle(direct.value) => (direct.value.threw /\ grid.cells = direct.value.before)
        /\ ~BadRectangle(direct.value) => ~direct.value.threw

\* the cells of the rectangle of rows y0..y1 and columns x0..x1
Block(y0, y1, x0, x1) == {[y |-> r, x |-> c] : r \in y0..y1, c \in x0..x1}
PartitionsReturned == {PartitionOfString(grid, str) : str \in Solutions}

\* C11 as stated: on the 3x3 board with 3 at (0,0) and 6 at (2,2) shikakuSolve
\* returns exactly one solution, the left column and the two right columns.
C11_ExactlyOneSolution ==
    (Returned /\ SamePuzzle(grid, BoardThreeThree))
        => /\ Cardinality(Solutions) = 1
           /\ PartitionsReturned = {{Block(0, 2, 0, 0), Block(0, 2, 1, 2)}}

\* C11 as amended: on that board shikakuSolve returns exactly two solutions,
\* the left column with the two right columns, and the top row with the two
\* bottom rows.
C11_TwoSolutions ==
    (Returned /\ SamePuzzle(grid, BoardThreeThree))
        => /\ Cardinality(Solutions) = 2
           /\ PartitionsReturned = {{Block(0, 2, 0, 0), Block(0, 2, 1, 2)},
                                    {Block(0, 0, 0, 2), Block(1, 2, 0, 2)}}

\* C11 witness: the call on the 3x3 board has returned its strings
C11_Witness ==
    /\ Returned
    /\ SamePuzzle(grid, BoardThreeThree)
    /\ Solutions = {<<"0","0","0","1","0","1","0","0","0","1","0","1","0","0","0","1","0","1">>,
                    <<"0","0","0","0","0","0","0","1","0","1","0","1","0","1","0","1","0","1">>}

\* C12 as stated: on the 5x5 board shikakuSolve returns at least one solution.
C12_AtLeastOneSolution ==
    (Returned /\ SamePuzzle(grid, BoardFiveFive)) => Solutions # {}

\* C12 as amended: on the 5x5 board shikakuSolve returns no solution (null):
\* the clue 8 at (4,4) has no candidate rectangle, every 2x4 and 4x2 rectangle
\* through it holds another clue.
C12_NoSolution ==
    (Returned /\ SamePuzzle(grid, BoardFiveFive))
        => /\ result.isNull
           /\ MapGet(initialPossibilitiesCalculation(Fresh(grid)),
                     coordToString([y |-> 4, x |-> 4])) = <<>>

\* C12 witness: the call on the 5x5 board has returned null
C12_Witness ==
    /\ Returned
    /\ SamePuzzle(grid, BoardFiveFive)
    /\ result.isNull

\* a board without clues and without active cells
AllVoid(g) == g.areas = <<>> /\ ActiveCoords(g) = {}

\* C13 as stated: on an all-void board shikakuSolve returns the set holding
\* only the empty string, unless it aborts with an error.
C13_EmptyString == (Returned /\ AllVoid(grid)) => result = Some({<<>>})

\* C13 as amended: on an all-void board of height H and width W shikakuSolve
\* returns the set holding only the string of H*W void tokens "--".
C13_VoidTokens ==
    (Returned /\ AllVoid(grid))
        => result = Some({[j \in 1..(2 * grid.size.height * grid.size.width) |-> "-"]})

\* C13 witness: the call on an all-void board of four cells has returned
C13_Witness ==
    /\ Returned
    /\ AllVoid(grid)
    /\ grid.size.height * grid.size.width = 4
    /\ result = Some({<<"-", "-", "-", "-", "-", "-", "-", "-">>})

\* what the app shows: the solutions panel, the error message
ShowsSolutions(a) == ~a.solutions.isNull /\ a.solutions.value # {}
ShowsError(a) == ~a.error.isNull

\* C14: after a click on Solve the app eventually leaves the Solving state, and
\* the step that leaves it shows exactly one outcome: a non-empty list of
\* solutions with the index at 0, or an error message, which is the
\* no-solution text when shikakuSolve returned and the caught error text when
\* it threw.
C14_SolveEnds ==
    /\ app.solving ~> ~app.solving
    /\ [][(app.solving /\ ~app'.solving) =>
            /\ ShowsSolutions(app') # ShowsError(app')
            /\ ShowsSolutions(app') => app'.currentSolutionIndex = 0
            /\ ShowsError(app') =>
                 app'.error.value = (IF phase = "threw" THEN ErrorText ELSE NoSolutionText)]_vars

\* C14 witness: one click ended with two or more solutions shown, and after an
\* edit the next click ended with the no-solution text shown
C14_Witness ==
    /\ Len(history) = 2
    /\ ~history[1].output.isNull
    /\ Cardinality(history[1].output.value) >= 2
    /\ history[2].status = "returned"
    /\ history[2].output.isNull
    /\ phase = "idle"
    /\ ~app.solving
    /\ app.error = Some(NoSolutionText)
    /\ ~ShowsSolutions(app)

\* C15 (memoization is transparent): every call of shikakuSolve ends as the
\* same search without the cache ends, with the same set of strings; and every
\* cache hit, a cached empty set returned as null included, returns exactly
\* the canonical strings of all completions of the board of that frame.
C15_CacheTransparent ==
    /\ [](phase \in {"returned", "threw"} =>
            LET call == history[Len(history)]
                plain == SolveWithoutCache(call.input)
            IN call.status = plain.status /\ call.output = plain.output)
    /\ [][CacheHit => RetSet(Top'.ret) = CompletionStrings(TopGrid)]_vars

\* C15 witness: a frame has just returned strings replayed from the cache
C15_Witness ==
    /\ phase = "solving"
    /\ Top.pc = "return"
    /\ Top.zerosHash \in DOMAIN cache
    /\ Top.correctSolutions = {}
    /\ ~Top.ret.isNull
    /\ Top.ret.value = CompletionStrings(TopGrid)

\* a working board is in order: the cells of every positive id are a filled
\* rectangle of active cells with exactly one clue, whose value is its area
BoardInOrder(g) ==
    \A r \in PlacedIds(g) :
        LET R == CellsOfId(g, r)
        IN /\ R \in RectangleSets(g)
           /\ R \subseteq ActiveCoords(g)
           /\ Cardinality({i \in 1..Len(g.areas) : stringToCoord(g.areas[i].key) \in R}) = 1
           /\ \A i \in 1..Len(g.areas) :
                  stringToCoord(g.areas[i].key) \in R => g.areas[i].val = Cardinality(R)

\* C16 (board invariant): during a solve the board of every frame is in order;
\* and a pass of resolve leaves every assigned cell as it was, and every id it
\* took from the counter is on the board afterwards (as a whole rectangle of its
\* clue's area), so no placement overlapped another and no clue was placed twice.
C16_BoardInvariant ==
    /\ [](\A k \in 1..Len(stack) : BoardInOrder([grid EXCEPT !.cells = stack[k].cells]))
    /\ [][(phase = "solving" /\ phase' = "solving" /\ Len(stack') = Len(stack)) =>
            /\ \A c \in GridCoords(grid) :
                   Top.cells[c.y][c.x] # 0 => Top'.cells[c.y][c.x] = Top.cells[c.y][c.x]
            /\ PlacedIds([grid EXCEPT !.cells = Top'.cells])
                 = PlacedIds(TopGrid) \cup (rectangleCounter..(rectangleCounter' - 1))]_vars

\* C16 witness: below a branch assumption, a board with three or more
\* rectangles placed and cells still unassigned
C16_Witness ==
    /\ phase = "solving"
    /\ Len(stack) >= 2
    /\ Cardinality(PlacedIds(TopGrid)) >= 3
    /\ emptyCells(TopGrid) # <<>>
    /\ BoardInOrder(TopGrid)

\* the valid completions of a propagation state: the valid partitions that
\* contain every placed rectangle and, for every clue still in the map, one of
\* the candidates of its list
StateCompletions(g, rem) ==
    {P \in CompletionsOf(g) :
        \A i \in 1..Len(rem) : \E k \in 1..Len(rem[i].val) : ZoneCells(rem[i].val[k]) \in P}

\* a step of the model that is one half of a pass of resolve (filterByRectAndFind
\* or filterByCellAndFind) and did not throw
PassStep ==
    /\ phase = "solving"
    /\ phase' = "solving"
    /\ \/ Top.pc = "cell"
       \/ /\ Top.pc = "while"
          /\ ~mapsEqual(Some(Top.remainingPossibilities), Top.previousState)

\* C17 (propagation preserves the valid completions): a half pass returns null
\* only when its state has no valid completion; every rectangle it places is in
\* every valid completion of the state it started from; and every candidate that
\* some valid completion uses is still in its clue's list afterwards, or is the
\* rectangle placed for that clue.
C17_PropagationSound ==
    [][PassStep =>
         LET before == StateCompletions(TopGrid, Top.remainingPossibilities)
             after == [grid EXCEPT !.cells = Top'.cells]
             rem == Top.remainingPossibilities
             remAfter == Top'.remainingPossibilities
         IN IF Top'.pc = "return" THEN before = {}
            ELSE /\ \A r \in PlacedIds(after) \ PlacedIds(TopGrid) :
                       \A P \in before : CellsOfId(after, r) \in P
                 /\ \A i \in 1..Len(rem) : \A k \in 1..Len(rem[i].val) :
                       (\E P \in before : ZoneCells(rem[i].val[k]) \in P) =>
                           \/ /\ MapHas(remAfter, rem[i].key)
                              /\ rem[i].val[k] \in SeqToSet(MapGet(remAfter, rem[i].key))
                           \/ LET c == stringToCoord(rem[i].key)
                              IN /\ after.cells[c.y][c.x] # 0
                                 /\ CellsOfId(after, after.cells[c.y][c.x])
                                      = ZoneCells(rem[i].val[k])]_vars

\* C17 witness: a pass has placed a rectangle and shortened the list of a clue
\* that is still in the map, and the state has a valid completion
C17_Witness ==
    /\ phase = "solving"
    /\ Top.pc = "while"
    /\ ~Top.previousState.isNull
    /\ Len(Top.remainingPossibilities) > 0
    /\ Len(Top.remainingPossibilities) < Len(Top.previousState.value)
    /\ \E i \in 1..Len(Top.remainingPossibilities) :
          Len(Top.remainingPossibilities[i].val)
            < Len(MapGet(Top.previousState.value, Top.remainingPossibilities[i].key))
    /\ StateCompletions(TopGrid, Top.remainingPossibilities) # {}

\* C17 witness: below a branch assumption, a pass returned null on a state
\* without a valid completion
C17_WitnessFailure ==
    /\ phase = "solving"
    /\ Len(stack) >= 2
    /\ PlacedIds(TopGrid) # {}
    /\ Top.pc = "return"
    /\ Top.ret.isNull
    /\ Top.zerosHash = <<>>
    /\ StateCompletions(TopGrid, Top.remainingPossibilities) = {}

\* the rectangles a clue may take, stated from the rules: inside the grid, on
\* active cells only, holding the clue's cell and no other clue, of the clue's area
RectanglesFor(g, i) ==
    {p \in [start : [y : Rows(g), x : Cols(g)],
            size : [height : 1..g.size.height, width : 1..g.size.width]] :
        /\ p.start.y + p.size.height <= g.size.height
        /\ p.start.x + p.size.width <= g.size.width
        /\ ZoneCells(p) \subseteq ActiveCoords(g)
        /\ ZoneCells(p) \cap ClueCoords(g) = {stringToCoord(g.areas[i].key)}
        /\ p.size.height * p.size.width = g.areas[i].val}

\* the state right after shikakuSolve has computed the initial possibilities
Generated ==
    /\ phase = "solving"
    /\ Len(stack) = 1
    /\ Top.pc = "while"
    /\ Top.previousState.isNull

\* C18 (the candidate generator is exact): the initial possibilities have one
\* list per clue, in the order of the clues, and the list of a clue holds every
\* rectangle the rules allow for it, each once, and nothing else.
C18_GeneratorExact ==
    Generated =>
        /\ Len(Top.remainingPossibilities) = Len(grid.areas)
        /\ \A i \in 1..Len(grid.areas) :
              LET list == Top.remainingPossibilities[i].val
              IN /\ Top.remainingPossibilities[i].key = grid.areas[i].key
                 /\ SeqToSet(list) = RectanglesFor(grid, i)
                 /\ Len(list) = Cardinality(RectanglesFor(grid, i))

\* C18 witness: a clue of value 4 has two or more generated candidates, a
\* square among them, and its list is what the rules allow, each once
C18_Witness ==
    /\ Generated
    /\ \E i \in 1..Len(grid.areas) :
          LET list == Top.remainingPossibilities[i].val
          IN /\ grid.areas[i].val = 4
             /\ \E k \in 1..Len(list) : list[k].size = [height |-> 2, width |-> 2]
             /\ Len(list) >= 2
             /\ SeqToSet(list) = RectanglesFor(grid, i)
             /\ Len(list) = Cardinality(SeqToSet(list))

\* C18 witness: on a board with a void cell a clue has no candidate at all
C18_WitnessNone ==
    /\ Generated
    /\ ActiveCoords(grid) # GridCoords(grid)
    /\ \E j \in 1..Len(grid.areas) :
          /\ Top.remainingPossibilities[j].val = <<>>
          /\ RectanglesFor(grid, j) = {}

\* filterByCellAndFind after the first k entries of its table, for the frame
\* that is about to run it
CellTable == emptyCellsPossibilities(Top.remainingPossibilities, TopGrid)
AfterEntries(k) ==
    CellLoop(SubSeq(CellTable, 1, k), TopGrid, 1,
             PassState("ok", Top.remainingPossibilities, Top.cells, rectangleCounter))

\* every list of the map after is a part of the list the clue had in the map before
ListsShrink(before, after) ==
    \A i \in 1..Len(after) :
        /\ MapHas(before, after[i].key)
        /\ SeqToSet(after[i].val) \subseteq SeqToSet(MapGet(before, after[i].key))

\* C19 (candidates are only ever removed): each half pass of resolve leaves
\* every clue that is still in the map with a part of the list it had before;
\* within filterByCellAndFind, the handling of each cell of the table leaves
\* every clue with a part of the list it had just before that cell; and when
\* mapsEqual finds the counts of two passes equal, the lists are equal.
C19_OnlyRemoved ==
    /\ [][(PassStep /\ Top'.pc # "return") =>
            ListsShrink(Top.remainingPossibilities, Top'.remainingPossibilities)]_vars
    /\ [][(PassStep /\ Top.pc = "cell") =>
            \A k \in 1..Len(CellTable) :
                (AfterEntries(k).status = "ok") =>
                    ListsShrink(AfterEntries(k - 1).rem, AfterEntries(k).rem)]_vars
    /\ [](Converged => Top.previousState = Some(Top.remainingPossibilities))

\* one more full pass from the state of the top frame: filterByRectAndFind,
\* then filterByCellAndFind on what it left
OneMorePass ==
    LET filtered == filterByRectAndFind(Top.remainingPossibilities, TopGrid, rectangleCounter)
    IN IF filtered.status # "ok" THEN filtered
       ELSE filterByCellAndFind(filtered.rem, [grid EXCEPT !.cells = filtered.cells],
                                filtered.counter)

\* C20 (success of resolve is a true fixed point): when resolve leaves its loop,
\* one more full pass would succeed, place no rectangle and leave every list as
\* it is; every clue in the map has two or more candidates; every candidate in
\* the map is on unassigned active cells only; the clues in the map are exactly
\* the clues whose cell is unassigned; and if the map is empty, every active
\* cell is assigned.
C20_TrueFixedPoint ==
    Converged =>
        LET rem == Top.remainingPossibilities
        IN /\ OneMorePass = PassState("ok", rem, Top.cells, rectangleCounter)
           /\ \A i \in 1..Len(rem) :
                 /\ Len(rem[i].val) >= 2
                 /\ \A k \in 1..Len(rem[i].val) :
                       \A c \in ZoneCells(rem[i].val[k]) :
                           /\ c \in ActiveCoords(grid)
                           /\ Top.cells[c.y][c.x] = 0
           /\ {stringToCoord(rem[i].key) : i \in 1..Len(rem)}
                = {c \in ClueCoords(grid) : Top.cells[c.y][c.x] = 0}
           /\ rem = <<>> => \A c \in ActiveCoords(grid) : Top.cells[c.y][c.x] # 0

\* C20 witness: resolve left its loop with rectangles placed, two or more clues
\* still in the map and a list that a pass had shortened
C20_Witness ==
    /\ Converged
    /\ Len(Top.remainingPossibilities) >= 2
    /\ PlacedIds(TopGrid) # {}
    /\ \E i \in 1..Len(Top.remainingPossibilities) :
          /\ MapHas(stack[1].remainingPossibilities, Top.remainingPossibilities[i].key)
          /\ Len(Top.remainingPossibilities[i].val)
               < Len(MapGet(initialPossibilitiesCalculation(Fresh(grid)),
                            Top.remainingPossibilities[i].key))
    /\ OneMorePass = PassState("ok", Top.remainingPossibilities, Top.cells, rectangleCounter)

\* C20 witness: resolve left its loop with an empty map and every active cell assigned
C20_WitnessSolved ==
    /\ Converged
    /\ Top.remainingPossibilities = <<>>
    /\ Cardinality(PlacedIds(TopGrid)) >= 2
    /\ \A c \in ActiveCoords(grid) : Top.cells[c.y][c.x] # 0

\* C21 (ids written on a cache hit): for every cached string replayed on a cache
\* hit, the ids written into the unassigned cells of the copy are none of the
\* ids already on the board; two of those cells get the same id exactly when
\* the cached string gives them the same label; and the string made from the
\* copy stands for the rectangles already placed plus the rectangles of the
\* cached string on the unassigned cells.
C21_CacheHitIds ==
    [][CacheHit =>
         \A cachedResult \in cache[zerosHashOf(TopGrid)] :
            LET gridCopy == cachedGridCopy(cachedResult, TopGrid, rectangleCounter)
                zeros == SeqToSet(emptyCells(TopGrid))
            IN /\ \A u \in zeros :
                     /\ gridCopy.cells[u.y][u.x] > 0
                     /\ gridCopy.cells[u.y][u.x] \notin PlacedIds(TopGrid)
               /\ \A u \in zeros : \A v \in zeros :
                     (gridCopy.cells[u.y][u.x] = gridCopy.cells[v.y][v.x])
                       <=> (TokenAt(grid, cachedResult, u) = TokenAt(grid, cachedResult, v))
               /\ PartitionOfString(grid, lexicographicalGrid(gridCopy))
                    = {CellsOfId(TopGrid, r) : r \in PlacedIds(TopGrid)}
                        \cup ({CellsOfLabel(grid, cachedResult, TokenAt(grid, cachedResult, u))
                                 \cap zeros : u \in zeros})]_vars

\* C21 witness: a cache hit on a board with a rectangle placed has returned two
\* or more strings, each a valid solution
C21_Witness ==
    /\ phase = "solving"
    /\ Top.pc = "return"
    /\ Top.zerosHash \in DOMAIN cache
    /\ Top.zerosHash = zerosHashOf(TopGrid)
    /\ Top.correctSolutions = {}
    /\ PlacedIds(TopGrid) # {}
    /\ ~Top.ret.isNull
    /\ Cardinality(Top.ret.value) >= 2
    /\ \A str \in Top.ret.value : SoundString(grid, str)

\* the assumptions a frame has still to try are the last ones of the list made
\* from its map when it began to branch
SiblingsIntact(f) ==
    LET all == getAssumedPossibilitiesFromAnArea(f.remainingPossibilities)
    IN /\ Len(f.todo) <= Len(all)
       /\ f.todo = SubSeq(all, Len(all) - Len(f.todo) + 1, Len(all))

\* C22 (branch isolation): while a recursive call runs and when it returns, the
\* board, the map and the assumptions still to try of every frame below it stay
\* as they were when the call was made; and the assumptions a branching frame
\* still has to try are the ones made from its map, unchanged.
C22_BranchIsolation ==
    /\ [][\A k \in 1..(Len(stack) - 1) :
            k <= Len(stack') =>
                /\ stack'[k].cells = stack[k].cells
                /\ stack'[k].remainingPossibilities = stack[k].remainingPossibilities
                /\ stack'[k].todo = stack[k].todo]_vars
    /\ [](\A k \in 1..Len(stack) : stack[k].pc = "assume" => SiblingsIntact(stack[k]))

\* C22 witness: a recursive call that filled its board has returned solutions,
\* another assumption is still to be tried, and the board of the caller still
\* has its unassigned cells
C22_Witness ==
    /\ phase = "solving"
    /\ Top.pc = "assume"
    /\ Top.correctSolutions # {}
    /\ Top.todo # <<>>
    /\ Len(Top.todo) < Len(getAssumedPossibilitiesFromAnArea(Top.remainingPossibilities))
    /\ SiblingsIntact(Top)
    /\ zerosHashOf(TopGrid) = Top.zerosHash
    /\ emptyCells(TopGrid) # <<>>

\* C23 (solve works on a working copy): when shikakuSolve has returned, the
\* Grid the caller passed is as it was at the call: cells all zero, mask and
\* clue map unchanged.
C23_CallerBoardUnchanged ==
    Returned =>
        /\ grid = history[Len(history)].input
        /\ IsFresh(grid)

\* the branching clue as the rules name it: fewest candidates, then the largest
\* clue number, then the smallest (y, x)
LexLess(a, b) == a.y < b.y \/ (a.y = b.y /\ a.x < b.x)
BranchingClue(g, rem) ==
    LET fewest == {i \in 1..Len(rem) : \A j \in 1..Len(rem) : Len(rem[i].val) <= Len(rem[j].val)}
        largest == {i \in fewest :
                      \A j \in fewest : MapGet(g.areas, rem[i].key) >= MapGet(g.areas, rem[j].key)}
        i == CHOOSE i \in largest :
                 \A j \in largest \ {i} :
                     LexLess(stringToCoord(rem[i].key), stringToCoord(rem[j].key))
    IN rem[i].key

\* the frames that have begun to branch and have tried no assumption yet
Branching(f) ==
    /\ f.pc = "assume"
    /\ f.todo = getAssumedPossibilitiesFromAnArea(f.remainingPossibilities)

\* C24 (branching heuristic): the clue whose candidates a frame is about to try
\* is, among the clues of its map with the fewest candidates, the one with the
\* largest clue number, and among those the one with the smallest (y, x),
\* whatever the order of the clue map.
C24_BranchingClue ==
    \A k \in 1..Len(stack) :
        Branching(stack[k]) =>
            \A n \in 1..Len(stack[k].todo) :
                stack[k].todo[n].areaCoord = BranchingClue(grid, stack[k].remainingPossibilities)

\* C24 for clue maps in row-major order, as parseGrid builds them: the same
\* statement, without "whatever the order of the clue map"
RowMajorAreas(g) ==
    \A i \in 1..Len(g.areas) : \A j \in 1..Len(g.areas) :
        i < j => LexLess(stringToCoord(g.areas[i].key), stringToCoord(g.areas[j].key))
C24_BranchingClueRowMajor == RowMajorAreas(grid) => C24_BranchingClue

\* the number of candidates in a map, and of unassigned active cells on a board
RECURSIVE TotalCandidates(_)
TotalCandidates(rem) ==
    IF rem = <<>> THEN 0 ELSE Len(Head(rem).val) + TotalCandidates(Tail(rem))
UnassignedCount(cells) == Len(emptyCells([grid EXCEPT !.cells = cells]))

\* C25 (termination): a full pass of resolve after which the loop goes on has
\* left fewer clues or fewer candidates in the map than it found; a frame made
\* for a branch assumption has, once its first filterByRectAndFind has run,
\* fewer unassigned active cells than the frame that made it; and every call of
\* shikakuSolve that has begun ends.
C25_Terminates ==
    /\ [](\A k \in 1..Len(stack) :
            LET f == stack[k]
            IN (/\ f.pc = "while"
                /\ ~f.previousState.isNull
                /\ ~mapsEqual(Some(f.remainingPossibilities), f.previousState))
               => \/ Len(f.remainingPossibilities) < Len(f.previousState.value)
                  \/ TotalCandidates(f.remainingPossibilities)
                       < TotalCandidates(f.previousState.value))
    /\ [](\A k \in 2..Len(stack) :
            ~stack[k].previousState.isNull =>
                UnassignedCount(stack[k].cells) < UnassignedCount(stack[k - 1].cells))
    /\ (phase = "solving") ~> (phase \in {"returned", "threw"})

\* C25 witness: a call that needed a second pass and two levels of assumptions
\* has returned
C25_Witness ==
    /\ phase = "returned"
    /\ \E zerosA \in DOMAIN cache : \E zerosB \in DOMAIN cache : Len(zerosA) < Len(zerosB)
    /\ ~result.isNull
    /\ rectangleCounter > 8

\* the clue shown in a cell of the editor, 0 for none
ClueAt(g, c) ==
    IF MapHas(g.areas, coordToString(c)) THEN MapGet(g.areas, coordToString(c)) ELSE 0

\* a text that is a number from 1 to 99: one or two digits, not all zero
IsClueText(value) ==
    /\ Len(value) \in 1..2
    /\ \A k \in 1..Len(value) : IsDigit(value[k])
    /\ parseInt(value) \in 1..99

\* every clue of the grid is on an active cell of the grid and is from 1 to 99
ValidEditorGrid(g) ==
    \A i \in 1..Len(g.areas) :
        LET c == stringToCoord(g.areas[i].key)
        IN /\ c \in GridCoords(g)
           /\ g.activeMask[c.y][c.x]
           /\ g.areas[i].val \in 1..99

\* what an edit is to do to its cell: the mask and the clue afterwards
EditedCell(g, c, value) ==
    IF value = <<"-">> THEN [active |-> FALSE, clue |-> 0]
    ELSE IF value = <<>> \/ value = <<"0">> THEN [active |-> TRUE, clue |-> 0]
    ELSE IF IsClueText(value) THEN [active |-> TRUE, clue |-> parseInt(value)]
    ELSE [active |-> g.activeMask[c.y][c.x], clue |-> ClueAt(g, c)]

\* C26 (edits keep the grid valid): the grid of the editor always has its clues
\* on active cells, with values from 1 to 99; and an edit does to its cell what
\* its text says - "-" makes it void without clue, "" or "0" active without
\* clue, a number from 1 to 99 active with that clue, any other text leaves it
\* as it was - and leaves every other cell as it was.
C26_EditsKeepGridValid ==
    /\ [](ValidEditorGrid(app.grid))
    /\ [][app'.edits = app.edits + 1 =>
            LET e == app'.edit.value
            IN \A c \in GridCoords(app.grid) :
                 /\ app'.grid.size = app.grid.size
                 /\ IF c = [y |-> e.y, x |-> e.x]
                    THEN /\ app'.grid.activeMask[c.y][c.x]
                              = EditedCell(app.grid, c, e.value).active
                         /\ ClueAt(app'.grid, c) = EditedCell(app.grid, c, e.value).clue
                    ELSE /\ app'.grid.activeMask[c.y][c.x] = app.grid.activeMask[c.y][c.x]
                         /\ ClueAt(app'.grid, c) = ClueAt(app.grid, c)]_vars

\* two grids show the same puzzle: size, mask and the clue of every cell
SameShownPuzzle(g1, g2) ==
    /\ g1.size = g2.size
    /\ g1.activeMask = g2.activeMask
    /\ \A c \in GridCoords(g1) : ClueAt(g1, c) = ClueAt(g2, c)

\* C27 (no stale solution on display): whenever solutions are displayed, they
\* are what the last run of the solver returned, and that run was given the
\* puzzle now shown in the editor.
C27_SolutionOfShownGrid ==
    ShowsSolutions(app) =>
        /\ history # <<>>
        /\ history[Len(history)].output = app.solutions
        /\ SameShownPuzzle(history[Len(history)].input, app.grid)

====
